---- MODULE Spec2Model ----
(***************************************************************************)
(* A model of the RAG backend: the ingestion pipeline with its document    *)
(* registry (services/ingestion.py), the retrieval engine                  *)
(* (services/retrieval.py), the streaming generation protocol              *)
(* (services/generation.py, api/chat.py) and the HTTP handlers that call   *)
(* them (api/documents.py).                                                *)
(*                                                                         *)
(* Python strings are sequences of one-character strings, so that the      *)
(* regular expressions, slices and concatenations of the code are computed *)
(* character by character.                                                 *)
(***************************************************************************)
EXTENDS Integers, Sequences, FiniteSets, TLC

VARIABLES
    collection,   \* the Chroma collection: a set of stored chunk records
    files,        \* the upload directory: a function from file name to content
    chunk_size,   \* settings.chunk_size of the running process
    clock,        \* datetime.now(): strictly increasing
    last,         \* the last request handled and its outcome
    live,         \* history: doc_id -> chunk_count returned by its last successful ingest
    gone,         \* history: doc_ids deleted after a successful ingest, not ingested since
    tainted,      \* history: doc_ids whose last ingestion aborted after touching the store
    gpc,          \* position of generate_stream / event_generator
    events,       \* the events event_generator has emitted so far
    failure,      \* the exception the generation model raised, or NoFailure
    pulled,       \* number of stream chunks pulled from the model so far
    srcs,         \* the sources handed to generate_stream
    idArgs,       \* inputs of generate_document_id under study
    idRes,        \* its results
    deltas,       \* history: the stream chunks pulled from the model so far
    inp,          \* the arguments of the function under study
    out,          \* its result
    procs,        \* the upload requests in flight: position and locals of each
    oplog         \* history: the store calls of the requests in flight, in order

sysVars == <<collection, files, chunk_size, clock, last, live, gone, tainted>>
streamVars == <<gpc, events, failure, pulled, srcs, deltas>>
idVars == <<idArgs, idRes>>
fnVars == <<inp, out>>
raceVars == <<procs, oplog>>
vars == <<collection, files, chunk_size, clock, last, live, gone, tainted,
          gpc, events, failure, pulled, srcs, deltas, idArgs, idRes, inp, out,
          procs, oplog>>

(***************************************************************************)
(* Bounds of the model.                                                    *)
(***************************************************************************)
\* the two values of settings.chunk_size a deployment is started with (tokens)
ChunkSizeSmall == 2
ChunkSizeLarge == 4
\* settings.chunk_overlap (tokens)
ChunkOverlap == 1
\* calls of ingest_document per run (bounds clock)
MaxIngests == 2
\* stream chunks the generation model produces per run
MaxDeltas == 3
\* the largest top_k a search is called with
MaxTopK == 2
\* the most hits an answer of the store holds when the conversion is studied
MaxHits == 3
\* the longest conversation history a chat request carries
MaxHistory == 7
\* the most pieces a text given to the chunker is made of
MaxPieces == 4

(***************************************************************************)
(* Program constants.                                                      *)
(***************************************************************************)
CharsPerToken == 4
PrefixLen == 20
HashLen == 8
\* history[-6:]
HistoryWindow == 6

(***************************************************************************)
(* Python string primitives.                                               *)
(***************************************************************************)
Min(a, b) == IF a < b THEN a ELSE b
Max(a, b) == IF a > b THEN a ELSE b

\* Python's \s and str.strip() whitespace, over the model's alphabet
IsSpace(c) == c \in {" ", "\n", "\t"}

\* s[i:] for 0 <= i (1-based first kept index i+1)
Drop(s, n) == SubSeq(s, n + 1, Len(s))
Take(s, n) == SubSeq(s, 1, Min(n, Len(s)))

\* s[-n:] for n > 0: the last n characters, the whole of s when n >= len(s)
LastChars(s, n) == SubSeq(s, Max(1, Len(s) - n + 1), Len(s))

RECURSIVE LStrip(_)
LStrip(s) == IF s # <<>> /\ IsSpace(Head(s)) THEN LStrip(Tail(s)) ELSE s

RECURSIVE RStrip(_)
RStrip(s) ==
    IF s # <<>> /\ IsSpace(s[Len(s)]) THEN RStrip(SubSeq(s, 1, Len(s) - 1)) ELSE s

\* str.strip()
Strip(s) == RStrip(LStrip(s))

\* re.sub(r"\s+", " ", s)
RECURSIVE CollapseSpaces(_)
CollapseSpaces(s) ==
    IF s = <<>> THEN <<>>
    ELSE IF IsSpace(Head(s)) THEN <<" ">> \o CollapseSpaces(LStrip(s))
    ELSE <<Head(s)>> \o CollapseSpaces(Tail(s))

\* the longest prefix of s made of newlines only
RECURSIVE NewlineRun(_)
NewlineRun(s) == IF s # <<>> /\ Head(s) = "\n" THEN 1 + NewlineRun(Tail(s)) ELSE 0

\* re.split(r"\n\n+", s), given the piece `cur` collected so far
RECURSIVE SplitParagraphsFrom(_, _)
SplitParagraphsFrom(s, cur) ==
    IF s = <<>> THEN <<cur>>
    ELSE IF NewlineRun(s) >= 2
         THEN <<cur>> \o SplitParagraphsFrom(Drop(s, NewlineRun(s)), <<>>)
         ELSE SplitParagraphsFrom(Tail(s), Append(cur, Head(s)))

SplitParagraphs(s) == SplitParagraphsFrom(s, <<>>)

IsSentenceEnd(c) == c \in {".", "!", "?"}

\* re.split(r"(?<=[.!?])\s+", s), given the piece `cur` collected so far
RECURSIVE SplitSentencesFrom(_, _)
SplitSentencesFrom(s, cur) ==
    IF s = <<>> THEN <<cur>>
    ELSE IF IsSpace(Head(s)) /\ cur # <<>> /\ IsSentenceEnd(cur[Len(cur)])
         THEN <<cur>> \o SplitSentencesFrom(LStrip(s), <<>>)
         ELSE SplitSentencesFrom(Tail(s), Append(cur, Head(s)))

SplitSentences(s) == SplitSentencesFrom(s, <<>>)

(***************************************************************************)
(* IngestionService.chunk_text                                             *)
(***************************************************************************)
\* the buffer kept after a flush, cut from the head of the flushed buffer
Reseed_Head(cur, overlap_chars) == Take(cur, overlap_chars)

\* the buffer kept after a flush: current_chunk[-overlap_chars:] if overlap_chars else ""
Reseed(cur, overlap_chars) ==
    IF overlap_chars # 0 THEN LastChars(cur, overlap_chars) ELSE <<>>

\* one pass of the body shared by the sentence loop and the paragraph branch:
\* flush when the piece would overflow a non-empty buffer, then append the
\* piece behind its separator
\* the body with the append made only when nothing was flushed
AppendPiece_FlushOrAppend(st, piece, sep, target_chars, overlap_chars) ==
    LET flush == Len(st.cur) + Len(piece) > target_chars /\ st.cur # <<>>
        kept  == IF flush THEN Reseed(st.cur, overlap_chars) ELSE st.cur \o sep \o piece
    IN  [chunks  |-> IF flush THEN Append(st.chunks, Strip(st.cur)) ELSE st.chunks,
         cur     |-> kept,
         flushes |-> IF flush
                     THEN Append(st.flushes,
                                 [buffer |-> st.cur, chunk |-> Strip(st.cur), kept |-> kept,
                                  sep |-> sep, piece |-> piece, next |-> kept])
                     ELSE st.flushes]

\* the body with the flushed buffer emitted as it is, without strip()
AppendPiece_NoStrip(st, piece, sep, target_chars, overlap_chars) ==
    LET flush == Len(st.cur) + Len(piece) > target_chars /\ st.cur # <<>>
        kept  == IF flush THEN Reseed(st.cur, overlap_chars) ELSE st.cur
    IN  [chunks  |-> IF flush THEN Append(st.chunks, st.cur) ELSE st.chunks,
         cur     |-> kept \o sep \o piece,
         flushes |-> IF flush
                     THEN Append(st.flushes,
                                 [buffer |-> st.cur, chunk |-> st.cur, kept |-> kept,
                                  sep |-> sep, piece |-> piece, next |-> kept \o sep \o piece])
                     ELSE st.flushes]

\* (flushes is history: the buffer flushed, the chunk emitted, the buffer kept,
\* and the separator and piece appended, for each flush made in the loop)
AppendPiece(st, piece, sep, target_chars, overlap_chars) ==
    LET flush == Len(st.cur) + Len(piece) > target_chars /\ st.cur # <<>>
        kept  == IF flush THEN Reseed(st.cur, overlap_chars) ELSE st.cur
    IN  [chunks  |-> IF flush THEN Append(st.chunks, Strip(st.cur)) ELSE st.chunks,
         cur     |-> kept \o sep \o piece,
         flushes |-> IF flush
                     THEN Append(st.flushes,
                                 [buffer |-> st.cur, chunk |-> Strip(st.cur), kept |-> kept,
                                  sep |-> sep, piece |-> piece, next |-> kept \o sep \o piece])
                     ELSE st.flushes]

RECURSIVE AddSentences(_, _, _, _)
AddSentences(st, sentences, target_chars, overlap_chars) ==
    IF sentences = <<>> THEN st
    ELSE AddSentences(AppendPiece(st, Head(sentences), <<" ">>, target_chars, overlap_chars),
                      Tail(sentences), target_chars, overlap_chars)

RECURSIVE AddParagraphs(_, _, _, _)
AddParagraphs(st, paragraphs, target_chars, overlap_chars) ==
    IF paragraphs = <<>> THEN st
    ELSE LET paragraph == Strip(Head(paragraphs))
             next ==
                 IF paragraph = <<>> THEN st
                 ELSE IF Len(paragraph) > target_chars
                      THEN AddSentences(st, SplitSentences(paragraph),
                                        target_chars, overlap_chars)
                      ELSE AppendPiece(st, paragraph, <<"\n", "\n">>,
                                       target_chars, overlap_chars)
         IN  AddParagraphs(next, Tail(paragraphs), target_chars, overlap_chars)

\* lines 62-97: the state of the chunker when its loop over the paragraphs ends
ChunkLoop(text, size, overlap) ==
    LET clean         == Strip(CollapseSpaces(text))
        target_chars  == size * CharsPerToken
        overlap_chars == overlap * CharsPerToken
    IN  AddParagraphs([chunks |-> <<>>, cur |-> <<>>, flushes |-> <<>>],
                      SplitParagraphs(clean), target_chars, overlap_chars)

\* the last buffer appended as it is, without strip()
chunk_text_NoStrip(text, size, overlap) ==
    LET clean == Strip(CollapseSpaces(text))
        st    == ChunkLoop(text, size, overlap)
    IN  IF clean = <<>> THEN <<>> ELSE Append(st.chunks, st.cur)

chunk_text(text, size, overlap) ==
    LET clean == Strip(CollapseSpaces(text))
        st    == ChunkLoop(text, size, overlap)
    IN  IF clean = <<>> THEN <<>>
        ELSE IF Strip(st.cur) # <<>> THEN Append(st.chunks, Strip(st.cur))
        ELSE st.chunks

(***************************************************************************)
(* The inputs of the model: file names, extracted texts, and the first 8   *)
(* hex digits of their MD5 digests.                                        *)
(***************************************************************************)
T1     == <<"A", "b", ".", " ", "C", "d", ".">>
T2     == <<"A", "b", ".", " ", "C", "d", ".", " ", "E", "f", ".", " ", "G", "h", ".">>
T3     == <<"A", "b", ".", "\n", "\n", "C", "d", ".", " ", "E", "f", "?">>
TWs    == <<" ", "\n">>
TEmpty == <<>>

Texts == {T1, T2, T3, TWs, TEmpty}

\* hashlib.md5(content.encode()).hexdigest() of each text of the model
md5_hexdigest(content) ==
    CASE content = T1     ->
             <<"6", "e", "d", "5", "3", "3", "b", "6", "0", "4", "5", "f", "6", "d", "2", "8",
             "d", "1", "0", "e", "d", "3", "f", "f", "a", "4", "6", "9", "d", "5", "2", "c">>
      [] content = T2     ->
             <<"c", "d", "d", "3", "3", "b", "b", "1", "8", "f", "c", "8", "a", "c", "d", "6",
             "4", "5", "c", "a", "7", "c", "4", "5", "b", "6", "0", "d", "6", "5", "d", "2">>
      [] content = T3     ->
             <<"3", "b", "d", "8", "a", "8", "0", "e", "d", "4", "9", "7", "7", "7", "5", "1",
             "7", "9", "0", "a", "e", "3", "f", "a", "f", "5", "5", "9", "6", "a", "7", "8">>
      [] content = TWs    ->
             <<"d", "7", "8", "4", "f", "a", "8", "b", "6", "d", "9", "8", "d", "2", "7", "6",
             "9", "9", "7", "8", "1", "b", "d", "9", "a", "7", "c", "f", "1", "9", "f", "0">>
      [] content = TEmpty ->
             <<"d", "4", "1", "d", "8", "c", "d", "9", "8", "f", "0", "0", "b", "2", "0", "4",
             "e", "9", "8", "0", "0", "9", "9", "8", "e", "c", "f", "8", "4", "2", "7", "e">>

ATxt   == <<"a", ".", "t", "x", "t">>
APdf   == <<"a", ".", "p", "d", "f">>
BTXT   == <<"b", ".", "T", "X", "T">>
ABTxt  == <<"a", "-", "b", ".", "t", "x", "t">>
A_BTxt == <<"a", "_", "b", ".", "t", "x", "t">>
ADocx  == <<"a", ".", "d", "o", "c", "x">>
DATxt  == <<"d", "/", "a", ".", "t", "x", "t">>
NoExt  == <<"a">>
HiddenTxt == <<".", "t", "x", "t">>
LongU  == <<"a", "b", "c", "d", "e", "f", "g", "h", "i", "j", "k", "l", "m", "n", "o",
            "p", "q", "r", "s", "t", "u", "v", "w", ".", "t", "x", "t">>
LongX  == <<"a", "b", "c", "d", "e", "f", "g", "h", "i", "j", "k", "l", "m", "n", "o",
            "p", "q", "r", "s", "t", "X", "Y", ".", "t", "x", "t">>

(***************************************************************************)
(* pathlib.Path(filename).name / .suffix / .stem                           *)
(***************************************************************************)
\* the last index of character c in s, 0 when absent
RECURSIVE RFind(_, _)
RFind(s, c) ==
    IF s = <<>> THEN 0
    ELSE IF s[Len(s)] = c THEN Len(s)
    ELSE RFind(SubSeq(s, 1, Len(s) - 1), c)

PathName(filename) == Drop(filename, RFind(filename, "/"))

\* a suffix exists when the last dot is neither the first nor the last character
PathSuffix(filename) ==
    LET name == PathName(filename)
        i    == RFind(name, ".")
    IN  IF 1 < i /\ i < Len(name) THEN Drop(name, i - 1) ELSE <<>>

PathStem(filename) ==
    LET name == PathName(filename)
        i    == RFind(name, ".")
    IN  IF 1 < i /\ i < Len(name) THEN Take(name, i - 1) ELSE name

Lower(c) ==
    CASE c = "T" -> "t" [] c = "X" -> "x" [] c = "Y" -> "y" [] c = "A" -> "a"
      [] c = "B" -> "b" [] c = "P" -> "p" [] c = "D" -> "d" [] c = "F" -> "f"
      [] OTHER -> c

LowerStr(s) == [i \in 1..Len(s) |-> Lower(s[i])]

FileNames == {ATxt, APdf, BTXT, ABTxt, A_BTxt, ADocx, DATxt, NoExt, HiddenTxt, LongU, LongX, <<>>}

ChunkSizes == {ChunkSizeSmall, ChunkSizeLarge}

AlphaNum ==
    {"a", "b", "c", "d", "e", "f", "g", "h", "i", "j", "k", "l", "m", "n", "o", "p",
     "q", "r", "s", "t", "u", "v", "w", "x", "y", "z",
     "A", "B", "C", "D", "E", "F", "G", "H", "I", "J", "K", "L", "M", "N", "O", "P",
     "Q", "R", "S", "T", "U", "V", "W", "X", "Y", "Z",
     "0", "1", "2", "3", "4", "5", "6", "7", "8", "9"}

\* the substitution with "-" added to the class of characters kept
Sanitize_KeepDash(s) ==
    [i \in 1..Len(s) |-> IF s[i] \in AlphaNum \cup {"-"} THEN s[i] ELSE "_"]

\* re.sub(r"[^a-zA-Z0-9]", "_", s)
Sanitize(s) == [i \in 1..Len(s) |-> IF s[i] \in AlphaNum THEN s[i] ELSE "_"]

(***************************************************************************)
(* IngestionService.generate_document_id                                   *)
(***************************************************************************)
content_hash(content) == Take(md5_hexdigest(content), HashLen)
safe_filename(filename) == Take(Sanitize(PathStem(filename)), PrefixLen)

generate_document_id(filename, content) ==
    safe_filename(filename) \o <<"_">> \o content_hash(content)

(***************************************************************************)
(* The vector store (a Chroma collection) and the upload directory.        *)
(***************************************************************************)
\* collection.get(where={"document_id": doc_id})["ids"]
CollectionGet(col, doc_id) == {r.id : r \in {x \in col : x.metadata.document_id = doc_id}}

\* collection.delete(ids=ids)
CollectionDelete(col, ids) == {r \in col : r.id \notin ids}

\* collection.add(...): a record whose id is already stored is not inserted
CollectionAdd(col, recs) == col \cup {r \in recs : r.id \notin {x.id : x \in col}}

\* collection.count()
CollectionCount(col) == Cardinality(col)

\* path.write_bytes / path.write_text: create or overwrite
WriteFile(fs, path, content) ==
    [p \in DOMAIN fs \cup {path} |-> IF p = path THEN content ELSE fs[p]]

\* path.unlink() of every path in paths
Unlink(fs, paths) == [p \in DOMAIN fs \ paths |-> fs[p]]

HasPrefix(s, pre) == Len(s) >= Len(pre) /\ SubSeq(s, 1, Len(pre)) = pre

DotJson == <<".", "j", "s", "o", "n">>
ChunkInfix == <<"_", "c", "h", "u", "n", "k", "_">>

DigitChar(d) ==
    CASE d = 0 -> "0" [] d = 1 -> "1" [] d = 2 -> "2" [] d = 3 -> "3" [] d = 4 -> "4"
      [] d = 5 -> "5" [] d = 6 -> "6" [] d = 7 -> "7" [] d = 8 -> "8" [] d = 9 -> "9"

\* str(n) for n >= 0
RECURSIVE IntStr(_)
IntStr(n) == IF n < 10 THEN <<DigitChar(n)>> ELSE Append(IntStr(n \div 10), DigitChar(n % 10))

\* f"{doc_id}_chunk_{i}", i 0-based
ChunkId(doc_id, i) == doc_id \o ChunkInfix \o IntStr(i)

\* upload_directory / f"{doc_id}_{filename}" and upload_directory / f"{doc_id}.json"
RawPath(doc_id, filename) == doc_id \o <<"_">> \o filename
MetadataPath(doc_id) == doc_id \o DotJson

(***************************************************************************)
(* IngestionService.extract_text                                           *)
(***************************************************************************)
DotPdf == <<".", "p", "d", "f">>
DotTxtExt == <<".", "t", "x", "t">>

file_ext(filename) == LowerStr(PathSuffix(filename))

SupportedByExtractor(filename) == file_ext(filename) \in {DotPdf, DotTxtExt}

\* "\n\n".join(text_parts) over the pages that yield text
RECURSIVE JoinPages(_)
JoinPages(pages) ==
    IF pages = <<>> THEN <<>>
    ELSE IF Head(pages) = <<>> THEN JoinPages(Tail(pages))
    ELSE LET rest == JoinPages(Tail(pages))
         IN  IF rest = <<>> THEN Head(pages) ELSE Head(pages) \o <<"\n", "\n">> \o rest

\* a body is the uploaded bytes: the characters of a text file, or the pages
\* a PDF reader finds
extract_text(body, filename) ==
    IF file_ext(filename) = DotPdf THEN JoinPages(body.pages) ELSE body.data

\* not text.strip(), with the strip left out
TextIsBlank_NoStrip(text) == text = <<>>

\* not text.strip()
TextIsBlank(text) == Strip(text) = <<>>

(***************************************************************************)
(* IngestionService.ingest_document, as a run of steps over the record     *)
(* m = [col, files, log, err, result]: the store, the directory, the calls *)
(* issued so far, the exception raised (NoError while running) and the     *)
(* value returned.                                                         *)
(***************************************************************************)
NoError == "none"
NoResult == [id |-> <<>>, filename |-> <<>>, file_type |-> <<>>, chunk_count |-> 0,
             uploaded_at |-> 0, file_size |-> 0]

Raise(m, e) == [m EXCEPT !.err = e]
Call(m, name, arg) == [m EXCEPT !.log = Append(@, [call |-> name, arg |-> arg])]

\* lines 139-141: look the document up and delete its old chunks
DeleteExisting_Skip(m, doc_id) == Call(m, "get", doc_id)

DeleteExisting(m, doc_id) ==
    LET existing == CollectionGet(m.col, doc_id)
        m1 == Call(m, "get", doc_id)
    IN  IF existing # {}
        THEN [Call(m1, "delete", existing) EXCEPT !.col = CollectionDelete(m.col, existing)]
        ELSE m1

\* lines 105-115: one batched call to the Embedding Provider
generate_embeddings(m, texts, fault) ==
    IF m.err # NoError \/ texts = <<>> THEN m
    ELSE IF fault = "embed" THEN Raise(Call(m, "embed", texts), "EmbeddingError")
    ELSE Call(m, "embed", texts)

\* lines 153-161
ChunkMetadata(doc_id, filename, i, total) ==
    [document_id |-> doc_id, document_name |-> filename,
     chunk_index |-> i, total_chunks |-> total]

ChunkRecords(doc_id, filename, chunks) ==
    {[id |-> ChunkId(doc_id, i - 1), document |-> chunks[i],
      metadata |-> ChunkMetadata(doc_id, filename, i - 1, Len(chunks))] : i \in 1..Len(chunks)}

\* lines 164-169
AddChunks(m, doc_id, filename, chunks, fault) ==
    LET ids == [i \in 1..Len(chunks) |-> ChunkId(doc_id, i - 1)]
    IN  IF m.err # NoError THEN m
        ELSE IF fault = "add" THEN Raise(Call(m, "add", ids), "StoreError")
        ELSE [Call(m, "add", ids) EXCEPT
                 !.col = CollectionAdd(m.col, ChunkRecords(doc_id, filename, chunks))]

\* lines 138-169 with the two store steps exchanged: old ids read first, new
\* chunks added, the old ids deleted last
ReplaceChunks_DeleteAfterAdd(m, doc_id, filename, chunks, fault) ==
    LET existing == CollectionGet(m.col, doc_id)
        m1 == Call(m, "get", doc_id)
        m2 == AddChunks(generate_embeddings(m1, chunks, fault), doc_id, filename, chunks, fault)
    IN  IF chunks = <<>> THEN Raise(m1, "ChunkingFailed")
        ELSE IF m2.err # NoError \/ existing = {} THEN m2
        ELSE [Call(m2, "delete", existing) EXCEPT !.col = CollectionDelete(m2.col, existing)]

\* lines 138-169: delete the old version, chunk, embed, insert
ReplaceChunks(m, doc_id, filename, chunks, fault) ==
    LET m1 == DeleteExisting(m, doc_id)
    IN  IF chunks = <<>> THEN Raise(m1, "ChunkingFailed")
        ELSE AddChunks(generate_embeddings(m1, chunks, fault), doc_id, filename, chunks, fault)

\* lines 171-174: the parent directory of a name holding "/" does not exist
SaveFile(m, doc_id, filename, body, fault) ==
    LET path == RawPath(doc_id, filename)
    IN  IF m.err # NoError THEN m
        ELSE IF fault = "write_raw" \/ RFind(filename, "/") # 0
             THEN Raise(Call(m, "write", path), "OSError")
        ELSE [Call(m, "write", path) EXCEPT
                 !.files = WriteFile(m.files, path, [kind |-> "bytes", body |-> body])]

\* lines 178-186 with chunk_count taken from the last chunk_index
DocumentInfo_LastIndex(doc_id, filename, n_chunks, now, file_size) ==
    [id |-> doc_id, filename |-> filename, file_type |-> Drop(file_ext(filename), 1),
     chunk_count |-> n_chunks - 1, uploaded_at |-> now, file_size |-> file_size]

\* lines 178-186
DocumentInfo(doc_id, filename, n_chunks, now, file_size) ==
    [id |-> doc_id, filename |-> filename, file_type |-> Drop(file_ext(filename), 1),
     chunk_count |-> n_chunks, uploaded_at |-> now, file_size |-> file_size]

\* lines 176-189
SaveMetadata(m, doc_id, filename, n_chunks, now, file_size, fault) ==
    LET path == MetadataPath(doc_id)
        doc_info == DocumentInfo(doc_id, filename, n_chunks, now, file_size)
    IN  IF m.err # NoError THEN m
        ELSE IF fault = "write_meta" THEN Raise(Call(m, "write", path), "OSError")
        ELSE [Call(m, "write", path) EXCEPT
                 !.files = WriteFile(m.files, path, [kind |-> "json", info |-> doc_info]),
                 !.result = doc_info]

\* the values of the two pure functions on the inputs of the model, computed once
DocIdTable == [f \in FileNames, t \in Texts |-> generate_document_id(f, t)]
ChunkTable == [t \in Texts, size \in ChunkSizes |-> chunk_text(t, size, ChunkOverlap)]

ingest_document(col, fs, size, filename, body, file_size, fault, now) ==
    LET m0 == [col |-> col, files |-> fs, log |-> <<>>, err |-> NoError, result |-> NoResult]
        text == extract_text(body, filename)
        doc_id == DocIdTable[filename, text]
        chunks == ChunkTable[text, size]
        m1 == ReplaceChunks(m0, doc_id, filename, chunks, fault)
        m2 == SaveFile(m1, doc_id, filename, body, fault)
    IN  IF ~SupportedByExtractor(filename) THEN Raise(m0, "UnsupportedFileType")
        ELSE IF TextIsBlank(text) THEN Raise(m0, "EmptyContent")
        ELSE SaveMetadata(m2, doc_id, filename, Len(chunks), now, file_size, fault)

(***************************************************************************)
(* IngestionService.delete_document and list_documents                     *)
(***************************************************************************)
HasSuffix(s, suf) == Len(s) >= Len(suf) /\ SubSeq(s, Len(s) - Len(suf) + 1, Len(s)) = suf

\* upload_dir.glob(f"{doc_id}_*"), for a doc_id without glob metacharacters
GlobDocFiles(fs, doc_id) == {p \in DOMAIN fs : HasPrefix(p, doc_id \o <<"_">>)}

\* the files the loop of lines 225-228 unlinks
RawFilesOf(fs, doc_id) == {p \in GlobDocFiles(fs, doc_id) : PathSuffix(p) # DotJson}

\* lines 209-212
DeleteChunks_Skip(m, doc_id) == Call(m, "get", doc_id)

DeleteChunks(m, doc_id) == DeleteExisting(m, doc_id)

\* lines 214-230: `deleted` is set by the two unlink branches only
delete_document(col, fs, doc_id) ==
    LET m0 == [col |-> col, files |-> fs, log |-> <<>>, err |-> NoError, result |-> FALSE]
        m1 == DeleteChunks(m0, doc_id)
        meta == {p \in DOMAIN fs : p = MetadataPath(doc_id)}
        raw == RawFilesOf(fs, doc_id)
        m2 == IF meta # {} THEN Call(m1, "unlink", meta) ELSE m1
        m3 == IF raw # {} THEN Call(m2, "unlink", raw) ELSE m2
    IN  [m3 EXCEPT !.files = Unlink(fs, meta \cup raw),
                   !.result = (meta # {} \/ raw # {})]

\* json.loads + DocumentInfo(**data) succeeds on what SaveMetadata wrote
ParsesAsDocumentInfo(content) == content.kind = "json"

\* upload_dir.glob("*.json"), the records that parse
RegistryRecords(fs) ==
    {fs[p].info : p \in {q \in DOMAIN fs : HasSuffix(q, DotJson) /\ ParsesAsDocumentInfo(fs[q])}}

\* documents.sort(key=lambda d: d.uploaded_at, reverse=True)
RECURSIVE SortNewestFirst(_)
SortNewestFirst(docs) ==
    IF docs = {} THEN <<>>
    ELSE LET newest == CHOOSE d \in docs : \A e \in docs : e.uploaded_at <= d.uploaded_at
         IN  <<newest>> \o SortNewestFirst(docs \ {newest})

list_documents(fs) == SortNewestFirst(RegistryRecords(fs))

(***************************************************************************)
(* RetrievalService                                                        *)
(***************************************************************************)
DistanceUnit == 10000

\* the queries of the model
QueryAbCd == <<"A", "b", ".", " ", "C", "d", ".">>
Queries == {QueryAbCd}

IsSubstring(q, s) == \E i \in 0..(Len(s) - Len(q)) : SubSeq(s, i + 1, i + Len(q)) = q

\* the cosine distance (in 1/DistanceUnit) between the embeddings of a query
\* and of a chunk: the Embedding Provider is a function of the text alone
Distance(query, content) ==
    IF query = content THEN 0
    ELSE IF IsSubstring(query, content) THEN 2500
    ELSE 12000

\* the orders in which a set can be listed
RECURSIVE Orders(_)
Orders(S) ==
    IF S = {} THEN {<<>>}
    ELSE UNION {{<<x>> \o rest : rest \in Orders(S \ {x})} : x \in S}

\* collection.query(query_embeddings, n_results, where): the n_results nearest
\* of the candidates, nearest first, ties in any order
QueryAnswers(col, query, n_results, candidates) ==
    LET n == Min(n_results, Cardinality(candidates))
        d(r) == Distance(query, r.document)
    IN  {h \in UNION {Orders(S) : S \in {T \in SUBSET candidates : Cardinality(T) = n}} :
            /\ \A i \in 1..(Len(h) - 1) : d(h[i]) <= d(h[i + 1])
            /\ \A r \in candidates : (\A i \in 1..Len(h) : h[i] # r)
                                        => \A i \in 1..Len(h) : d(h[i]) <= d(r)}

\* 1 - distance, without the clamp
Score_NoClamp(distance) == DistanceUnit - distance

\* lines 64-74: max(0, 1 - distance), rounded to 4 decimals
Score(distance) == Max(0, DistanceUnit - distance)

\* schemas.py line 31: score: float = Field(ge=0, le=1)
ScoreIsValid(score) == 0 <= score /\ score <= DistanceUnit

\* lines 66-74: the SourceChunk built from one hit of the store's answer
ToSourceChunk(metadata, document, distance) ==
    [document_id |-> metadata.document_id, document_name |-> metadata.document_name,
     chunk_index |-> metadata.chunk_index, content |-> document,
     score |-> Score(distance)]

SourceChunk(hit, query) ==
    ToSourceChunk(hit.metadata, hit.document, Distance(query, hit.document))

\* the list left as the store ordered it
SortByScore_StoreOrder(chunks) == chunks

\* chunks.sort(key=lambda x: x.score, reverse=True): stable
RECURSIVE SortByScore(_)
SortByScore(chunks) ==
    IF chunks = <<>> THEN <<>>
    ELSE LET x == Head(chunks)
             rest == SortByScore(Tail(chunks))
             before == SelectSeq(rest, LAMBDA y : y.score > x.score)
             after == SelectSeq(rest, LAMBDA y : y.score <= x.score)
         IN  before \o <<x>> \o after

\* lines 54-78 (and 111-132): every hit converted, pydantic raising on a score
\* out of range, then the sort
ConvertHits(hits) ==
    LET chunks == [i \in 1..Len(hits) |->
                      ToSourceChunk(hits[i].metadata, hits[i].document, hits[i].distance)]
    IN  IF \E i \in 1..Len(chunks) : ~ScoreIsValid(chunks[i].score)
        THEN [err |-> "ValidationError", result |-> <<>>]
        ELSE [err |-> NoError, result |-> SortByScore(chunks)]

\* lines 41-42 and 94-95
CollectionIsEmpty_Never(col) == FALSE

CollectionIsEmpty(col) == CollectionCount(col) = 0

\* lines 23-29
embed_query(m, query) == Call(m, "embed", <<query>>)

\* lines 44-78 (and 97-132): embed, query the store, convert, sort
Retrieve(m, query, n_results, candidates, answer) ==
    LET m1 == Call(embed_query(m, query), "query", n_results)
        hits == [i \in 1..Len(answer) |->
                    [metadata |-> answer[i].metadata, document |-> answer[i].document,
                     distance |-> Distance(query, answer[i].document)]]
        conv == ConvertHits(hits)
    IN  [m1 EXCEPT !.err = conv.err, !.result = conv.result]

search(col, query, top_k, answer) ==
    LET m0 == [col |-> col, log |-> <<[call |-> "count", arg |-> 0]>>,
               err |-> NoError, result |-> <<>>]
    IN  IF CollectionIsEmpty(col) THEN m0
        ELSE Retrieve(m0, query, top_k, col, answer)

\* the chunks a where-filter {"document_id": {"$in": document_ids}} admits
Filtered(col, document_ids) ==
    {r \in col : \E i \in 1..Len(document_ids) : r.metadata.document_id = document_ids[i]}

search_with_filter(col, query, document_ids, top_k, answer) ==
    LET m0 == [col |-> col, log |-> <<[call |-> "count", arg |-> 0]>>,
               err |-> NoError, result |-> <<>>]
    IN  IF document_ids = <<>> THEN search(col, query, top_k, answer)
        ELSE IF CollectionIsEmpty(col) THEN m0
        ELSE Retrieve(m0, query, top_k, Filtered(col, document_ids), answer)

(***************************************************************************)
(* api/documents.py: validate_file, upload_document, delete_document       *)
(***************************************************************************)
MAX_FILE_SIZE == 10 * 1024 * 1024
ALLOWED_EXTENSIONS == {DotPdf, DotTxtExt}

\* "." + file.filename.split(".")[-1].lower() if "." in file.filename else ""
ValidatedExt(filename) ==
    IF RFind(filename, ".") # 0
    THEN <<".">> \o LowerStr(Drop(filename, RFind(filename, "."))) ELSE <<>>

\* the detail of the 400 validate_file answers with, NoError when it passes
validate_file(filename) ==
    IF filename = <<>> THEN "Filename is required"
    ELSE IF ValidatedExt(filename) \notin ALLOWED_EXTENSIONS THEN "File type not supported"
    ELSE NoError

\* lines 50-65: the checks made on the bytes read, before the core is called
CheckSize(file_size) ==
    IF file_size > MAX_FILE_SIZE THEN "File too large"
    ELSE IF file_size = 0 THEN "File is empty"
    ELSE NoError

\* lines 74-83: ValueError -> 400, any other exception -> 500
StatusOf(err) ==
    IF err = NoError THEN 200
    ELSE IF err \in {"UnsupportedFileType", "EmptyContent", "ChunkingFailed"} THEN 400
    ELSE 500

TxtBody(t) == [kind |-> "txt", data |-> t, pages |-> <<>>, nbytes |-> Len(t)]
PdfBody(pages, n) == [kind |-> "pdf", data |-> <<>>, pages |-> pages, nbytes |-> n]

\* the multipart uploads of the model
Uploads ==
    {[filename |-> ATxt, body |-> TxtBody(T1)],
     [filename |-> BTXT, body |-> TxtBody(T2)],
     [filename |-> DATxt, body |-> TxtBody(T1)],
     [filename |-> ADocx, body |-> TxtBody(T1)],
     [filename |-> HiddenTxt, body |-> TxtBody(T1)],
     [filename |-> ATxt, body |-> TxtBody(TWs)],
     [filename |-> ATxt, body |-> TxtBody(TEmpty)],
     [filename |-> APdf, body |-> PdfBody(<<TEmpty>>, 300)],
     [filename |-> APdf, body |-> PdfBody(<<T1>>, MAX_FILE_SIZE + 1)],
     [filename |-> <<>>, body |-> TxtBody(T1)]}

\* what the environment can make fail during one ingestion
Faults == {"none", "embed", "add", "write_raw", "write_meta"}

\* the doc_ids a DELETE request names: the ids the uploads produce, the bare
\* stem "a" and an id nothing produces
DocIds ==
    {generate_document_id(ATxt, T1), generate_document_id(BTXT, T2), <<"a">>, <<"z", "z">>}

TopKs == {MaxTopK}

NoLast == [op |-> "none", arg |-> <<>>, doc |-> <<>>, status |-> 0, err |-> NoError,
           result |-> <<>>, log |-> <<>>]

\* the doc_id ingest_document computes for an upload it does not reject
DocIdOf(u) == DocIdTable[u.filename, extract_text(u.body, u.filename)]

\* lines 44-88: upload_document
Upload(u, fault) ==
    LET rejected == IF validate_file(u.filename) # NoError THEN validate_file(u.filename)
                    ELSE CheckSize(u.body.nbytes)
        m == IF rejected = NoError
             THEN ingest_document(collection, files, chunk_size, u.filename, u.body,
                                  u.body.nbytes, fault, clock + 1)
             ELSE [col |-> collection, files |-> files, log |-> <<>>, err |-> rejected,
                   result |-> NoResult]
        reached == rejected = NoError /\ m.log # <<>>
        ok == rejected = NoError /\ m.err = NoError
        doc_id == IF reached THEN DocIdOf(u) ELSE <<>>
    IN  /\ clock < MaxIngests
        /\ clock' = IF rejected = NoError THEN clock + 1 ELSE clock
        /\ collection' = IF rejected = NoError THEN m.col ELSE collection
        /\ files' = IF rejected = NoError THEN m.files ELSE files
        /\ last' = IF rejected # NoError
                   THEN [NoLast EXCEPT !.op = "upload", !.arg = u, !.status = 400,
                                       !.err = rejected]
                   ELSE [op |-> "upload", arg |-> u, doc |-> doc_id,
                         status |-> StatusOf(m.err), err |-> m.err,
                         result |-> m.result, log |-> m.log]
        /\ live' = IF ok THEN [d \in DOMAIN live \cup {doc_id} |->
                                  IF d = doc_id THEN m.result.chunk_count ELSE live[d]]
                   ELSE live
        /\ gone' = IF reached THEN gone \ {doc_id} ELSE gone
        /\ tainted' = IF ok THEN tainted \ {doc_id}
                      ELSE IF reached THEN tainted \cup {doc_id}
                      ELSE tainted
        /\ UNCHANGED <<chunk_size, streamVars, idVars, fnVars, raceVars>>

\* lines 128-144: DELETE /{doc_id}
Delete(doc_id) ==
    LET m == delete_document(collection, files, doc_id)
    IN  /\ collection' = m.col
        /\ files' = m.files
        /\ last' = [op |-> "delete", arg |-> doc_id, doc |-> doc_id,
                    status |-> IF m.result THEN 200 ELSE 404, err |-> NoError,
                    result |-> m.result, log |-> m.log]
        /\ live' = [d \in DOMAIN live \ {doc_id} |-> live[d]]
        /\ gone' = IF doc_id \in DOMAIN live THEN gone \cup {doc_id} ELSE gone
        /\ tainted' = tainted \ {doc_id}
        /\ UNCHANGED <<chunk_size, clock, streamVars, idVars, fnVars, raceVars>>

\* lines 91-103: GET ""
List ==
    /\ last' = [NoLast EXCEPT !.op = "list", !.status = 200, !.result = list_documents(files)]
    /\ UNCHANGED <<collection, files, chunk_size, clock, live, gone, tainted,
                   streamVars, idVars, fnVars, raceVars>>

Search(query, top_k) ==
    \E answer \in QueryAnswers(collection, query, top_k, collection) :
        LET m == search(collection, query, top_k, answer)
        IN  /\ last' = [NoLast EXCEPT !.op = "search", !.arg = <<query, <<>>, top_k>>,
                                      !.status = 200, !.result = m.result, !.log = m.log]
            /\ UNCHANGED <<collection, files, chunk_size, clock, live, gone, tainted,
                           streamVars, idVars, fnVars, raceVars>>

\* the document_ids lists a filtered search is called with
FilterLists ==
    {<<>>, <<generate_document_id(ATxt, T1)>>,
     <<generate_document_id(BTXT, T2), <<"z", "z">>>>}

SearchWithFilter(query, document_ids, top_k) ==
    LET candidates == IF document_ids = <<>> THEN collection
                      ELSE Filtered(collection, document_ids)
    IN  \E answer \in QueryAnswers(collection, query, top_k, candidates) :
            LET m == search_with_filter(collection, query, document_ids, top_k, answer)
            IN  /\ last' = [NoLast EXCEPT !.op = "search_with_filter",
                                          !.arg = <<query, document_ids, top_k>>,
                                          !.status = 200, !.result = m.result, !.log = m.log]
                /\ UNCHANGED <<collection, files, chunk_size, clock, live, gone, tainted,
                               streamVars, idVars, fnVars, raceVars>>

\* the process is restarted with another CHUNK_SIZE in its environment; the
\* store and the upload directory persist
Reconfigure ==
    /\ chunk_size' \in ChunkSizes \ {chunk_size}
    /\ last' = [NoLast EXCEPT !.op = "restart"]
    /\ UNCHANGED <<collection, files, clock, live, gone, tainted, streamVars, idVars, fnVars, raceVars>>

NoFailure == "none"

StreamIdle ==
    /\ gpc = "idle" /\ events = <<>> /\ failure = NoFailure /\ pulled = 0 /\ srcs = <<>>
    /\ deltas = <<>>

IdIdle == idArgs = <<>> /\ idRes = <<>>

FnIdle == inp = <<>> /\ out = <<>>

RaceIdle == procs = <<>> /\ oplog = <<>>

Init ==
    /\ collection = {}
    /\ files = <<>>
    /\ chunk_size = ChunkSizeSmall
    /\ clock = 0
    /\ last = NoLast
    /\ live = <<>>
    /\ gone = {}
    /\ tainted = {}
    /\ StreamIdle
    /\ IdIdle
    /\ FnIdle
    /\ RaceIdle

Next ==
    \/ \E u \in Uploads, fault \in Faults : Upload(u, fault)
    \/ \E d \in DocIds : Delete(d)
    \/ List
    \/ \E q \in Queries, k \in TopKs : Search(q, k)
    \/ \E q \in Queries, ids \in FilterLists, k \in TopKs : SearchWithFilter(q, ids, k)
    \/ Reconfigure

Spec == Init /\ [][Next]_vars

(***************************************************************************)
(* GenerationService.generate_stream consumed by chat_stream's             *)
(* event_generator: one action per interaction with the generation model.  *)
(***************************************************************************)
NoneContent == "None"

\* the chunks the model's stream can yield: no choices, a delta whose content
\* is None or "", and deltas with text
StreamChunks ==
    {[has_choices |-> FALSE, content |-> NoneContent],
     [has_choices |-> TRUE, content |-> NoneContent],
     [has_choices |-> TRUE, content |-> ""],
     [has_choices |-> TRUE, content |-> "Hi"],
     [has_choices |-> TRUE, content |-> " "]}

\* str(e) of the exceptions the model client raises
FailureMessages == {"API error", "timeout"}

\* the source lists retrieval hands over
SourceLists ==
    {<<>>,
     <<[document_id |-> generate_document_id(ATxt, T1), document_name |-> ATxt,
        chunk_index |-> 0, content |-> T1, score |-> DistanceUnit]>>}

Event(type, data) == [type |-> type, data |-> data]

\* generation.py lines 93-97: [source.model_dump() for source in sources]
SourcesEvent(sources) == Event("sources", sources)

\* line 108 without the test of delta.content
DeltaIsForwarded_AnyChoice(chunk) == chunk.has_choices

\* generation.py line 108: chunk.data.choices and chunk.data.choices[0].delta.content
DeltaIsForwarded(chunk) == chunk.has_choices /\ chunk.content \notin {NoneContent, ""}

\* generation.py lines 107-113: one pass of the for loop
OnChunk(evs, chunk) ==
    IF DeltaIsForwarded(chunk) THEN Append(evs, Event("content", chunk.content)) ELSE evs

\* generation.py lines 115-119: the loop is over
OnExhausted_Silent(evs) == evs

OnExhausted(evs) == Append(evs, Event("done", NoneContent))

\* chat.py lines 77-79: the except clause of event_generator
OnException_Done(evs, msg) == Append(evs, Event("done", NoneContent))

OnException(evs, msg) == Append(evs, Event("error", msg))

\* generate_stream up to its first yield
StreamSources ==
    /\ gpc = "start"
    /\ events' = Append(events, SourcesEvent(srcs))
    /\ gpc' = "open"
    /\ UNCHANGED <<failure, pulled, srcs, deltas, sysVars, idVars, fnVars, raceVars>>

\* generation.py lines 100-105: mistral.chat.stream(...) returns the stream
StreamOpen ==
    /\ gpc = "open"
    /\ gpc' = "iter"
    /\ UNCHANGED <<events, failure, pulled, srcs, deltas, sysVars, idVars, fnVars, raceVars>>

\* the stream yields one more chunk
StreamPull(chunk) ==
    /\ gpc = "iter"
    /\ pulled < MaxDeltas
    /\ pulled' = pulled + 1
    /\ deltas' = Append(deltas, chunk)
    /\ events' = OnChunk(events, chunk)
    /\ UNCHANGED <<gpc, failure, srcs, sysVars, idVars, fnVars, raceVars>>

\* the stream is exhausted: done is yielded and both generators return
StreamEnd ==
    /\ gpc = "iter"
    /\ events' = OnExhausted(events)
    /\ gpc' = "closed"
    /\ UNCHANGED <<failure, pulled, srcs, deltas, sysVars, idVars, fnVars, raceVars>>

\* the model call raises, when the stream is opened or while it is read
StreamFail(msg) ==
    /\ gpc \in {"open", "iter"}
    /\ failure' = msg
    /\ events' = OnException(events, msg)
    /\ gpc' = "closed"
    /\ UNCHANGED <<pulled, srcs, deltas, sysVars, idVars, fnVars, raceVars>>

SysIdle ==
    /\ collection = {} /\ files = <<>> /\ chunk_size = ChunkSizeSmall /\ clock = 0
    /\ last = NoLast /\ live = <<>> /\ gone = {} /\ tainted = {}

InitStream ==
    /\ gpc = "start"
    /\ events = <<>>
    /\ failure = NoFailure
    /\ pulled = 0
    /\ deltas = <<>>
    /\ srcs \in SourceLists
    /\ SysIdle
    /\ IdIdle
    /\ FnIdle
    /\ RaceIdle

NextStream ==
    \/ StreamSources
    \/ StreamOpen
    \/ \E chunk \in StreamChunks : StreamPull(chunk)
    \/ StreamEnd
    \/ \E msg \in FailureMessages : StreamFail(msg)

SpecStream == InitStream /\ [][NextStream]_vars

(***************************************************************************)
(* generate_document_id on pairs of file names and pairs of contents.      *)
(***************************************************************************)
InitDocId ==
    /\ idArgs \in [f1 : FileNames, f2 : FileNames, c1 : Texts, c2 : Texts]
    /\ idRes = <<>>
    /\ SysIdle
    /\ StreamIdle
    /\ FnIdle
    /\ RaceIdle

ComputeIds ==
    /\ idRes = <<>>
    /\ idRes' = [a  |-> generate_document_id(idArgs.f1, idArgs.c1),
                 a2 |-> generate_document_id(idArgs.f1, idArgs.c1),
                 b  |-> generate_document_id(idArgs.f2, idArgs.c1),
                 c  |-> generate_document_id(idArgs.f1, idArgs.c2)]
    /\ UNCHANGED <<idArgs, sysVars, streamVars, fnVars, raceVars>>

NextDocId == ComputeIds

SpecDocId == InitDocId /\ [][NextDocId]_vars

(***************************************************************************)
(* Properties of the streaming protocol.                                   *)
(***************************************************************************)
Terminal == {"done", "error"}

TypesOf(evs) == [i \in 1..Len(evs) |-> evs[i].type]

CountType(evs, type) == Cardinality({i \in 1..Len(evs) : evs[i].type = type})

\* C1: the events emitted so far are one `sources` event, then `content`
\* events only, then at most one terminal event (`done` or `error`) in the
\* last position; once the stream has ended there is exactly one terminal
\* event, and before the first event nothing but `sources` can come.
C1_StreamSequence ==
    /\ gpc = "start" <=> events = <<>>
    /\ events # <<>> => events[1].type = "sources"
    /\ \A i \in 2..Len(events) : events[i].type \in {"content"} \cup Terminal
    /\ \A i \in 1..(Len(events) - 1) : events[i].type \notin Terminal
    /\ gpc = "closed" <=> (events # <<>> /\ events[Len(events)].type \in Terminal)
    /\ CountType(events, "sources") <= 1
    /\ CountType(events, "done") + CountType(events, "error") <= 1

\* a stream that ended with `error` after content was forwarded
C1_Witness ==
    /\ gpc = "closed"
    /\ TypesOf(events) = <<"sources", "content", "content", "error">>

\* C2: once the model call has failed, at the opening of the stream or after
\* any number of content events, the stream is over and its last event is the
\* one `error` event carrying the failure message; no `done` was emitted; and
\* no stream holds both `done` and `error`.
C2_FailureEndsWithError ==
    /\ failure # NoFailure =>
          /\ gpc = "closed"
          /\ events[Len(events)] = Event("error", failure)
          /\ CountType(events, "error") = 1
          /\ CountType(events, "done") = 0
    /\ failure = NoFailure => CountType(events, "error") = 0
    /\ ~(CountType(events, "done") > 0 /\ CountType(events, "error") > 0)

\* the model failed after one delta had been forwarded
C2_Witness ==
    /\ failure = "timeout"
    /\ TypesOf(events) = <<"sources", "content", "error">>

(***************************************************************************)
(* Properties of ingestion, deletion, listing and search.                  *)
(***************************************************************************)
Calls(log) == [i \in 1..Len(log) |-> log[i].call]

CountCalls(log, name) == Cardinality({i \in 1..Len(log) : log[i].call = name})

SeqRange(s) == {s[i] : i \in 1..Len(s)}

\* the step is an upload that reached IngestionService.ingest_document
IngestStep == last'.op = "upload" /\ clock' = clock + 1

\* the chunk records of a document
ChunksOf(col, doc_id) == {r \in col : r.metadata.document_id = doc_id}

\* C3: when an ingestion finds chunks of its doc_id in the store and gets past
\* the insert, it has deleted exactly those chunks before its one insert, the
\* store then holds for that doc_id as many entries as the ingestion produced
\* chunks, and each of them is a chunk of the new version.
C3_ReingestReplaces ==
    [][(/\ IngestStep
        /\ last'.err \in {NoError, "OSError"}
        /\ CollectionGet(collection, last'.doc) # {})
       => LET old == CollectionGet(collection, last'.doc)
              log == last'.log
              new == ChunksOf(collection', last'.doc)
          IN  /\ Calls(SubSeq(log, 1, 4)) = <<"get", "delete", "embed", "add">>
              /\ log[2].arg = old
              /\ CountCalls(log, "add") = 1 /\ CountCalls(log, "delete") = 1
              /\ Cardinality(new) = Len(log[4].arg)
              /\ last'.err = NoError => Cardinality(new) = last'.result.chunk_count
              /\ \A r \in new :
                    /\ r.id \in SeqRange(log[4].arg)
                    /\ r.metadata.document_name = last'.arg.filename
                    /\ r.metadata.total_chunks = Len(log[4].arg)]_vars

\* a re-ingestion that replaced a version of another chunk count
C3_Witness ==
    /\ last.op = "upload" /\ last.err = NoError
    /\ Len(last.log) >= 2 /\ last.log[2].call = "delete"
    /\ Cardinality(last.log[2].arg) # last.result.chunk_count
    /\ Cardinality(ChunksOf(collection, last.doc)) = last.result.chunk_count

ChunkCountMatches(info) ==
    info.chunk_count = Cardinality(ChunksOf(collection, info.id))

C5_DeleteReturnsWhetherRemoved ==
    last.op = "delete" =>
        (last.result <=> (\E i \in 1..Len(last.log) : last.log[i].call \in {"delete", "unlink"}))
SearchOps == {"search", "search_with_filter"}

\* C6: a document that was ingested successfully and then deleted, and that
\* no ingestion has touched since (gone), is in no listing and in no search
\* result, filtered or not; a document ingested successfully and not deleted
\* since (live) is listed with the chunk_count its last successful ingest
\* returned.
C6_DeletedStaysOut ==
    /\ last.op = "list" =>
          /\ \A i \in 1..Len(last.result) : last.result[i].id \notin gone
          /\ \A d \in DOMAIN live :
                \E i \in 1..Len(last.result) :
                    last.result[i].id = d /\ last.result[i].chunk_count = live[d]
    /\ last.op \in SearchOps =>
          \A i \in 1..Len(last.result) : last.result[i].document_id \notin gone

\* a search that returns chunks while another document is deleted
C6_Witness ==
    /\ last.op \in SearchOps
    /\ gone # {}
    /\ last.result # <<>>

WhitespaceOnly(text) == \A i \in 1..Len(text) : text[i] \in {" ", "\n", "\t"}

\* C7: an ingestion of a file whose extension the extractor does not support,
\* or whose extracted text is empty or whitespace-only, fails with
\* UnsupportedFileType or EmptyContent, issues no call to the store, the
\* Embedding Provider or the file system, and leaves the vector store and the
\* upload directory as they were.
C7_RejectedBeforeAnyStep ==
    [][\A u \in Uploads :
          (/\ IngestStep
           /\ last'.arg = u
           /\ (~SupportedByExtractor(u.filename)
                 \/ WhitespaceOnly(extract_text(u.body, u.filename))))
          => /\ last'.err = IF SupportedByExtractor(u.filename)
                            THEN "EmptyContent" ELSE "UnsupportedFileType"
             /\ last'.status = 400
             /\ last'.log = <<>>
             /\ collection' = collection
             /\ files' = files]_vars

\* a whitespace-only text was rejected while the store held chunks
C7_Witness ==
    /\ last.op = "upload" /\ last.err = "EmptyContent"
    /\ last.arg.body.data = TWs
    /\ collection # {} /\ files # <<>>

\* the record of the registry without its timestamp
Undated(info) == [info EXCEPT !.uploaded_at = 0]

\* C8: when the same upload is ingested successfully twice in succession, the
\* second call computes the same doc_id, leaves the vector store equal to what
\* the first call left, and leaves the upload directory equal but for the
\* uploaded_at of the one metadata record of that doc_id.
C8_ReingestIdempotent ==
    [][(/\ last.op = "upload" /\ last.err = NoError
        /\ IngestStep
        /\ last'.arg = last.arg /\ last'.err = NoError)
       => LET meta == MetadataPath(last.doc)
          IN  /\ last'.doc = last.doc
              /\ collection' = collection
              /\ DOMAIN files' = DOMAIN files
              /\ \A p \in DOMAIN files \ {meta} : files'[p] = files[p]
              /\ Undated(files'[meta].info) = Undated(files[meta].info)
              /\ Undated(last'.result) = Undated(last.result)
              /\ Cardinality({r \in RegistryRecords(files') : r.id = last.doc}) = 1]_vars

\* the second of two successful ingestions of b.TXT
C8_Witness ==
    /\ last.op = "upload" /\ last.err = NoError /\ last.arg.filename = BTXT
    /\ clock = 2
    /\ Len(last.log) >= 2 /\ last.log[2].call = "delete"
    /\ Cardinality(last.log[2].arg) = last.result.chunk_count

\* C10: a search on a store whose count() is 0 returns the empty sequence
\* after the count() call alone; a search on a non-empty store issues exactly
\* one embedding call, with the query as its one input, and one store query.
C10_EmptyStoreNoEmbedding ==
    last.op \in SearchOps =>
        IF collection = {}
        THEN last.result = <<>> /\ Calls(last.log) = <<"count">>
        ELSE /\ Calls(last.log) = <<"count", "embed", "query">>
             /\ last.log[2].arg = <<last.arg[1]>>

\* a filtered search on a store emptied by a delete
C10_Witness ==
    /\ last.op = "search_with_filter" /\ last.arg[2] # <<>>
    /\ collection = {} /\ clock > 0
    /\ last.result = <<>>
(***************************************************************************)
(* Properties of generate_document_id.                                     *)
(***************************************************************************)
\* an id is <prefix> "_" <8 hex digits>
IdPrefix(id) == Take(id, Len(id) - HashLen - 1)
IdSuffix(id) == LastChars(id, HashLen)

\* the stem of the name, cut to the length of the prefix
CutStem(filename) == Take(PathStem(filename), PrefixLen)

\* two file names whose cut stems differ in length, or at a position where
\* one of the two characters is a letter or a digit
StemsTellApart(f1, f2) ==
    LET s1 == CutStem(f1)
        s2 == CutStem(f2)
    IN  \/ Len(s1) # Len(s2)
        \/ \E i \in 1..Len(s1) : s1[i] # s2[i] /\ (s1[i] \in AlphaNum \/ s2[i] \in AlphaNum)

\* C9 as stated: two different file names give, for the same content, the same
\* hash suffix and different prefixes; two different contents give, for the
\* same file name, different hash suffixes and the same prefix.
C9_NameChangesPrefix ==
    idRes # <<>> =>
        /\ idArgs.f1 # idArgs.f2 =>
              /\ IdSuffix(idRes.a) = IdSuffix(idRes.b)
              /\ IdPrefix(idRes.a) # IdPrefix(idRes.b)
        /\ idArgs.c1 # idArgs.c2 =>
              /\ IdSuffix(idRes.a) # IdSuffix(idRes.c)
              /\ IdPrefix(idRes.a) = IdPrefix(idRes.c)

\* C9, amended: two file names give, for the same content, the same hash
\* suffix, and different prefixes exactly when their stems, cut to 20
\* characters, differ in length or at a position where one of the two
\* characters is a letter or a digit; two different contents give, for the
\* same file name, different hash suffixes and the same prefix.
C9_StemChangesPrefix ==
    idRes # <<>> =>
        /\ IdSuffix(idRes.a) = IdSuffix(idRes.b)
        /\ IdPrefix(idRes.a) # IdPrefix(idRes.b) <=> StemsTellApart(idArgs.f1, idArgs.f2)
        /\ idArgs.c1 # idArgs.c2 => IdSuffix(idRes.a) # IdSuffix(idRes.c)
        /\ IdPrefix(idRes.a) = IdPrefix(idRes.c)
        /\ Len(idRes.a) = Len(CutStem(idArgs.f1)) + 1 + HashLen

\* two names that differ in a punctuation character only, and two contents
C9_Witness ==
    /\ idRes # <<>>
    /\ idArgs.f1 = ABTxt /\ idArgs.f2 = A_BTxt
    /\ idArgs.c1 = T1 /\ idArgs.c2 = T2
    /\ idRes.a = idRes.b /\ idRes.a # idRes.c
(***************************************************************************)
(* Properties of the content events.                                       *)
(***************************************************************************)
\* a chunk whose first choice carries a delta with a non-empty string
HasText(chunk) == chunk.has_choices /\ chunk.content # NoneContent /\ chunk.content # ""

ContentEvents(evs) == SelectSeq(evs, LAMBDA e : e.type = "content")

TextDeltas(chunks) == SelectSeq(chunks, HasText)

\* C14: every content event carries a non-empty string, and the content
\* events emitted so far are, one for one and in order, the deltas with
\* non-empty text pulled from the model so far; chunks without choices and
\* deltas whose content is None or "" have produced no event.
C14_ContentEventsAreTextDeltas ==
    LET sent == ContentEvents(events)
        text == TextDeltas(deltas)
    IN  /\ \A i \in 1..Len(sent) : sent[i].data \notin {NoneContent, ""}
        /\ Len(sent) = Len(text)
        /\ \A i \in 1..Len(sent) : sent[i].data = text[i].content
        /\ Len(events) <= 2 + Len(text)

\* three chunks pulled, of which the second is the only one with text
C14_Witness ==
    /\ Len(deltas) = 3
    /\ ~HasText(deltas[1]) /\ HasText(deltas[2]) /\ ~HasText(deltas[3])
    /\ deltas[1].has_choices /\ ~deltas[3].has_choices
    /\ Len(ContentEvents(events)) = 1
    /\ gpc = "closed"
(***************************************************************************)
(* The conversion of an answer of the store (retrieval.py lines 54-78), on *)
(* answers in any order and on every distance of the cosine range.         *)
(***************************************************************************)
\* cosine distance ranges over [0, 2]
MaxDistance == 2 * DistanceUnit

\* the distances of the hits of a longer answer
HitDistances == {0, 2500, DistanceUnit, 12000}

\* hit number i of an answer: chunk i-1 of a.txt, at the given distance
Hit(i, distance) ==
    [metadata |-> ChunkMetadata(generate_document_id(ATxt, T1), ATxt, i - 1, MaxHits),
     document |-> T1, distance |-> distance]

\* answers of one hit at every distance, and answers of up to MaxHits hits in
\* every order of distance
Answers ==
    {<<Hit(1, d)>> : d \in 0..MaxDistance}
        \cup UNION {{[i \in 1..n |-> Hit(i, ds[i])] : ds \in [1..n -> HitDistances]} :
                      n \in 0..MaxHits}

InitConvert ==
    /\ inp \in {a \in [hits : Answers, top_k : 1..MaxHits] : Len(a.hits) <= a.top_k}
    /\ out = <<>>
    /\ SysIdle
    /\ StreamIdle
    /\ IdIdle
    /\ RaceIdle

Convert ==
    /\ out = <<>>
    /\ out' = ConvertHits(inp.hits)
    /\ UNCHANGED <<inp, sysVars, streamVars, idVars, raceVars>>

NextConvert == Convert

SpecConvert == InitConvert /\ [][NextConvert]_vars

\* the position in the answer of the hit a returned chunk was built from
PositionOf(chunk) == chunk.chunk_index + 1

\* C11: for every distance d of [0, 2] the conversion does not fail and the
\* chunk built from the hit has score max(0, 1 - d): 1 for d = 0, 0 for every
\* d >= 1, and a value of [0, 1] always.
C11_ScoreClamped ==
    out # <<>> =>
        /\ out.err = NoError
        /\ Len(out.result) = Len(inp.hits)
        /\ \A i \in 1..Len(out.result) :
              LET d == inp.hits[PositionOf(out.result[i])].distance
                  score == out.result[i].score
              IN  /\ d <= DistanceUnit => score = DistanceUnit - d
                  /\ d >= DistanceUnit => score = 0
                  /\ d = 0 => score = DistanceUnit
                  /\ 0 <= score /\ score <= DistanceUnit

\* the hit at the far end of the range is given score 0
C11_Witness ==
    /\ out # <<>> /\ out.err = NoError
    /\ Len(inp.hits) = 1 /\ inp.hits[1].distance = MaxDistance
    /\ out.result[1].score = 0

\* C12: whatever the order of the hits in the answer, the sequence returned
\* holds each hit exactly once, holds at most top_k chunks, has its scores in
\* non-increasing order, and keeps hits of equal score in the order of the
\* answer.
C12_SortedStablePermutation ==
    out # <<>> =>
        LET res == out.result
        IN  /\ Len(res) = Len(inp.hits)
            /\ Len(res) <= inp.top_k
            /\ \A i \in 1..Len(res) :
                  /\ PositionOf(res[i]) \in 1..Len(inp.hits)
                  /\ res[i] = ToSourceChunk(inp.hits[PositionOf(res[i])].metadata,
                                            inp.hits[PositionOf(res[i])].document,
                                            inp.hits[PositionOf(res[i])].distance)
            /\ \A i, j \in 1..Len(res) : i # j => PositionOf(res[i]) # PositionOf(res[j])
            /\ \A i \in 1..(Len(res) - 1) : res[i].score >= res[i + 1].score
            /\ \A i, j \in 1..Len(res) :
                  (i < j /\ res[i].score = res[j].score)
                      => PositionOf(res[i]) < PositionOf(res[j])

\* an answer out of order with two hits of equal score around a better one
C12_Witness ==
    /\ out # <<>>
    /\ Len(inp.hits) = 3
    /\ inp.hits[1].distance = 12000 /\ inp.hits[2].distance = 0
    /\ inp.hits[3].distance = DistanceUnit
    /\ <<PositionOf(out.result[1]), PositionOf(out.result[2]), PositionOf(out.result[3])>>
           = <<2, 1, 3>>
(***************************************************************************)
(* GenerationService.build_rag_prompt                                      *)
(***************************************************************************)
\* schemas.py: class MessageRole(str, Enum)
USER == [name |-> "USER", value |-> "user"]
ASSISTANT == [name |-> "ASSISTANT", value |-> "assistant"]

\* ChatMessage(role, content)
ChatMessage(role, content) == [role |-> role, content |-> content]

\* history: list[ChatMessage] | None
NoneHistory == [none |-> TRUE, items |-> <<>>]
HistoryList(items) == [none |-> FALSE, items |-> items]

\* generation.py lines 32-50: the guidelines, then the excerpts or the note
\* that no document is uploaded
SystemContent(sources) ==
    IF sources # <<>>
    THEN <<"guidelines", "context">>
            \o [i \in 1..Len(sources) |->
                   <<"excerpt", i, sources[i].document_name, sources[i].content>>]
    ELSE <<"guidelines", "no documents">>

\* the first six entries instead of the last six
RecentHistory_Oldest(history) == Take(history.items, HistoryWindow)

\* line 56: history[-6:]
RecentHistory(history) == LastChars(history.items, HistoryWindow)

\* lines 52-62; the lists of the caller are returned as the call leaves them
build_rag_prompt(question, sources, history) ==
    LET system == <<[role |-> "system", content |-> SystemContent(sources)]>>
        recent == IF ~history.none /\ history.items # <<>>
                  THEN RecentHistory(history) ELSE <<>>
        past   == [i \in 1..Len(recent) |->
                      [role |-> recent[i].role.value, content |-> recent[i].content]]
    IN  [messages |-> system \o past \o <<[role |-> "user", content |-> question]>>,
         history |-> history, sources |-> sources]

\* the messages a history is made of
HistoryMessages ==
    {ChatMessage(USER, "q"), ChatMessage(ASSISTANT, "a"), ChatMessage(USER, "")}

RECURSIVE SeqsUpTo(_, _)
SeqsUpTo(S, n) ==
    IF n = 0 THEN {<<>>}
    ELSE LET shorter == SeqsUpTo(S, n - 1)
         IN  shorter \cup {Append(h, m) : h \in {x \in shorter : Len(x) = n - 1}, m \in S}

Histories == {NoneHistory} \cup {HistoryList(h) : h \in SeqsUpTo(HistoryMessages, MaxHistory)}

Questions == {"New question", ""}

InitPrompt ==
    /\ inp \in [question : Questions, sources : SourceLists, history : Histories]
    /\ out = <<>>
    /\ SysIdle
    /\ StreamIdle
    /\ IdIdle
    /\ RaceIdle

BuildPrompt ==
    /\ out = <<>>
    /\ out' = build_rag_prompt(inp.question, inp.sources, inp.history)
    /\ UNCHANGED <<inp, sysVars, streamVars, idVars, raceVars>>

NextPrompt == BuildPrompt

SpecPrompt == InitPrompt /\ [][NextPrompt]_vars

\* C13: the prompt has 1 + min(6, |h|) + 1 messages: the one system message
\* first, then the last min(6, |h|) entries of the history with their role
\* and content, in their order, then the question as a user message; the
\* history and the sources of the caller are as they were.
C13_PromptShape ==
    out # <<>> =>
        LET h == inp.history.items
            k == IF Len(h) < 6 THEN Len(h) ELSE 6
            msgs == out.messages
        IN  /\ Len(msgs) = 1 + k + 1
            /\ msgs[1].role = "system"
            /\ \A i \in 2..Len(msgs) : msgs[i].role # "system"
            /\ \A i \in 1..k :
                  /\ msgs[1 + i].role = h[Len(h) - k + i].role.value
                  /\ msgs[1 + i].content = h[Len(h) - k + i].content
            /\ msgs[Len(msgs)] = [role |-> "user", content |-> inp.question]
            /\ out.history = inp.history
            /\ out.sources = inp.sources

\* a history of seven entries, of which the oldest differs from the others
C13_Witness ==
    /\ out # <<>>
    /\ Len(inp.history.items) = 7
    /\ inp.history.items[1] = ChatMessage(ASSISTANT, "a")
    /\ \A i \in 2..7 : inp.history.items[i] = ChatMessage(USER, "q")
    /\ Len(out.messages) = 8
    /\ \A i \in 2..8 : out.messages[i].role = "user"
(***************************************************************************)
(* IngestionService.chunk_text on texts put together from a few pieces,    *)
(* under several settings of chunk_size and chunk_overlap.                 *)
(***************************************************************************)
\* a short sentence, a word, a long sentence, a space and a blank line
TextPieces ==
    {<<"A", "b", ".", " ">>, <<"c", "d">>,
     <<"E", "f", "g", "h", "i", "j", "k", "l", "!", " ">>,
     <<" ">>, <<"\n", "\n">>}

RECURSIVE Flatten(_)
Flatten(pieces) == IF pieces = <<>> THEN <<>> ELSE Head(pieces) \o Flatten(Tail(pieces))

ChunkTexts == {Flatten(ps) : ps \in SeqsUpTo(TextPieces, MaxPieces)}

\* settings.chunk_size and settings.chunk_overlap, in tokens
ChunkSettings == [size : {1, ChunkSizeSmall, ChunkSizeLarge},
                  overlap : {0, ChunkOverlap, ChunkSizeLarge}]

InitChunk ==
    /\ inp \in [text : ChunkTexts, settings : ChunkSettings]
    /\ out = <<>>
    /\ SysIdle
    /\ StreamIdle
    /\ IdIdle
    /\ RaceIdle

\* one call of chunk_text; the flushes of its loop are kept with the result
Chunk ==
    /\ out = <<>>
    /\ out' = [chunks  |-> chunk_text(inp.text, inp.settings.size, inp.settings.overlap),
               flushes |-> ChunkLoop(inp.text, inp.settings.size,
                                     inp.settings.overlap).flushes]
    /\ UNCHANGED <<inp, sysVars, streamVars, idVars, raceVars>>

NextChunk == Chunk

SpecChunk == InitChunk /\ [][NextChunk]_vars
(***************************************************************************)
(* Upload requests in flight at once.  upload_document suspends at its two *)
(* awaits (file.read, file.seek); from there to the return of              *)
(* ingest_document the handler runs on the event loop of its server        *)
(* process without an await.  The server processes share the store and the *)
(* upload directory.                                                       *)
(***************************************************************************)
MaxRequests == 2
Requests == 1..MaxRequests

\* the server processes serving app.main:app
Workers == {"w1", "w2"}

\* the uploads in flight: two documents, each accepted by the HTTP layer
RaceUploads ==
    {[filename |-> ATxt, body |-> TxtBody(T1)],
     [filename |-> BTXT, body |-> TxtBody(T2)]}

\* the handler is inside ingest_document, past its first store call
InsideIngest(pc) == pc \in {"add", "save"}

\* every request may take a step whenever it is ready
CanRun_Preemptive(r) == TRUE

\* the event loop of r's process is not held by another request
CanRun(r) ==
    \A q \in DOMAIN procs \ {r} :
        procs[q].worker = procs[r].worker => ~InsideIngest(procs[q].pc)

Logged(r, step) ==
    Append(oplog, [req |-> r, step |-> step, doc |-> DocIdOf(procs[r].upload),
                   worker |-> procs[r].worker])

MachineOf(col, fs) ==
    [col |-> col, files |-> fs, log |-> <<>>, err |-> NoError, result |-> NoResult]

\* the store and the directory after one ingestion of a.txt
Seeded ==
    ingest_document({}, <<>>, ChunkSizeSmall, ATxt, TxtBody(T1), Len(T1), "none", 1)

InitRace ==
    /\ \/ collection = {} /\ files = <<>>
       \/ collection = Seeded.col /\ files = Seeded.files
    /\ chunk_size = ChunkSizeSmall
    /\ clock = 0
    /\ last = NoLast
    /\ live = <<>>
    /\ gone = {}
    /\ tainted = {}
    /\ StreamIdle
    /\ IdIdle
    /\ FnIdle
    /\ RaceIdle

\* a POST /upload reaches a server process: validate_file passes, line 47
Arrive(r, u, w) ==
    /\ r \notin DOMAIN procs
    /\ procs' = [q \in DOMAIN procs \cup {r} |->
                    IF q = r THEN [upload |-> u, worker |-> w, pc |-> "read"] ELSE procs[q]]
    /\ UNCHANGED <<oplog, sysVars, streamVars, idVars, fnVars>>

\* line 47: await file.read() completes, the size checks pass, line 63
ReadDone(r) ==
    /\ r \in DOMAIN procs /\ procs[r].pc = "read"
    /\ CanRun(r)
    /\ procs' = [procs EXCEPT ![r].pc = "seek"]
    /\ UNCHANGED <<oplog, sysVars, streamVars, idVars, fnVars>>

\* the handler of r waits at line 63 and its event loop is free: the
\* condition under which DeleteExistingStep(r) can happen
Resumable(r) == r \in DOMAIN procs /\ procs[r].pc = "seek" /\ CanRun(r)

\* line 63: await file.seek(0) completes; the handler is resumed when the
\* loop is free and runs ingest_document lines 131-141
DeleteExistingStep(r) ==
    /\ Resumable(r)
    /\ LET m == DeleteExisting(MachineOf(collection, files), DocIdOf(procs[r].upload))
       IN  collection' = m.col
    /\ procs' = [procs EXCEPT ![r].pc = "add"]
    /\ oplog' = Logged(r, "delete")
    /\ UNCHANGED <<files, chunk_size, clock, last, live, gone, tainted,
                   streamVars, idVars, fnVars>>

\* lines 143-169: chunk, embed, collection.add
AddStep(r) ==
    /\ r \in DOMAIN procs /\ procs[r].pc = "add"
    /\ CanRun(r)
    /\ LET u == procs[r].upload
           chunks == ChunkTable[extract_text(u.body, u.filename), chunk_size]
           m == AddChunks(MachineOf(collection, files), DocIdOf(u), u.filename, chunks, "none")
       IN  collection' = m.col
    /\ procs' = [procs EXCEPT ![r].pc = "save"]
    /\ oplog' = Logged(r, "add")
    /\ UNCHANGED <<files, chunk_size, clock, last, live, gone, tainted,
                   streamVars, idVars, fnVars>>

\* lines 171-189: the raw file and the metadata record, then the answer
SaveStep(r) ==
    /\ r \in DOMAIN procs /\ procs[r].pc = "save"
    /\ CanRun(r)
    /\ LET u == procs[r].upload
           chunks == ChunkTable[extract_text(u.body, u.filename), chunk_size]
           m1 == SaveFile(MachineOf(collection, files), DocIdOf(u), u.filename, u.body, "none")
           m2 == SaveMetadata(m1, DocIdOf(u), u.filename, Len(chunks), 1, u.body.nbytes, "none")
       IN  files' = m2.files
    /\ procs' = [procs EXCEPT ![r].pc = "done"]
    /\ UNCHANGED <<collection, oplog, chunk_size, clock, last, live, gone, tainted,
                   streamVars, idVars, fnVars>>

NextRace ==
    \/ \E r \in Requests, u \in RaceUploads, w \in Workers : Arrive(r, u, w)
    \/ \E r \in Requests : ReadDone(r)
    \/ \E r \in Requests : DeleteExistingStep(r)
    \/ \E r \in Requests : AddStep(r)
    \/ \E r \in Requests : SaveStep(r)

SpecRace == InitRace /\ [][NextRace]_vars

(***************************************************************************)
(* Properties of chunk_text.                                               *)
(***************************************************************************)
TargetChars == inp.settings.size * CharsPerToken
OverlapChars == inp.settings.overlap * CharsPerToken

HasNonSpace(text) == \E i \in 1..Len(text) : text[i] \notin {" ", "\n", "\t"}

\* the text holds a run of two or more newlines
HasParagraphBreak(text) ==
    \E i \in 1..(Len(text) - 1) : text[i] = "\n" /\ text[i + 1] = "\n"

\* every run of whitespace made one space, the ends trimmed
Normalized(text) == Strip(CollapseSpaces(text))

\* C15 as stated: a text with a non-whitespace character and shorter than
\* targetChars gives exactly one chunk, the input with its ends trimmed.
C15_ShortTextIsTrimmedInput ==
    (out # <<>> /\ HasNonSpace(inp.text) /\ Len(inp.text) < TargetChars)
        => out.chunks = <<Strip(inp.text)>>

\* C15, amended: a text with a non-whitespace character and shorter than
\* targetChars gives exactly one chunk; when the text holds no paragraph break
\* the chunk is the input with every run of whitespace made a single space
\* and the ends trimmed.
C15_ShortTextIsNormalizedInput ==
    (out # <<>> /\ HasNonSpace(inp.text) /\ Len(inp.text) < TargetChars)
        => /\ Len(out.chunks) = 1
           /\ ~HasParagraphBreak(inp.text) => out.chunks[1] = Normalized(inp.text)

\* a short text with leading spaces and two spaces between its words
C15_Witness ==
    /\ out # <<>>
    /\ inp.text = <<" ", "A", "b", ".", " ", " ", "c", "d">>
    /\ Len(inp.text) < TargetChars
    /\ out.chunks = <<<<"A", "b", ".", " ", "c", "d">>>>

\* the paragraphs of the original text, normalized, the empty ones left out
ParagraphsOf(text) ==
    LET ps == SplitParagraphs(text)
    IN  SelectSeq([i \in 1..Len(ps) |-> Normalized(ps[i])], LAMBDA p : p # <<>>)

\* C16: paragraphs are cut on the blank lines of the original text: a text of
\* two paragraphs that fit together in targetChars gives one chunk, the two
\* paragraphs joined by a blank line; and a paragraph that fits in targetChars
\* is found whole in some chunk.
C16_ParagraphsSurvive ==
    out # <<>> =>
        LET ps == ParagraphsOf(inp.text)
        IN  /\ (Len(ps) = 2 /\ Len(ps[1]) + 2 + Len(ps[2]) <= TargetChars)
                  => out.chunks = <<ps[1] \o <<"\n", "\n">> \o ps[2]>>
            /\ \A i \in 1..Len(ps) :
                  Len(ps[i]) <= TargetChars
                      => \E j \in 1..Len(out.chunks) : IsSubstring(ps[i], out.chunks[j])

\* chunk i without the overlap put back at its head, behind the separator
\* the chunker inserted
Remainder(i) ==
    IF i = 1 THEN out.chunks[1]
    ELSE LET f == out.flushes[i - 1]
             shown == LStrip(f.kept)
         IN  IF shown = <<>> THEN f.sep \o out.chunks[i]
             ELSE Drop(out.chunks[i], Len(shown))

RECURSIVE Rebuilt(_)
Rebuilt(n) == IF n = 0 THEN <<>> ELSE Rebuilt(n - 1) \o Remainder(n)

\* C17: each chunk after the first starts with the overlap the chunker kept
\* at the split, and the chunks, each without that overlap, concatenated in
\* order behind the separators the chunker inserted, are the normalized text.
C17_ChunksRebuildText ==
    out # <<>> =>
        /\ Len(out.flushes) = IF out.chunks = <<>> THEN 0 ELSE Len(out.chunks) - 1
        /\ \A i \in 1..Len(out.flushes) :
              /\ out.chunks[i] = out.flushes[i].chunk
              /\ Take(out.chunks[i + 1], Len(LStrip(out.flushes[i].kept)))
                     = LStrip(out.flushes[i].kept)
        /\ Rebuilt(Len(out.chunks)) = Normalized(inp.text)

\* a text cut into three chunks, with an overlap put back
C17_Witness ==
    /\ out # <<>>
    /\ Len(out.chunks) = 3
    /\ OverlapChars > 0
    /\ Len(out.chunks[1]) + Len(out.chunks[2]) + Len(out.chunks[3])
           > Len(Normalized(inp.text))

\* the last n characters of s, all of s when it is shorter
Trailing(s, n) == IF n >= Len(s) THEN s ELSE SubSeq(s, Len(s) - n + 1, Len(s))

\* what C20 says of every flush but for the length of the overlap
FlushReseedAppend(f) ==
    /\ f.buffer # <<>>
    /\ Len(f.buffer) + Len(f.piece) > TargetChars
    /\ f.chunk = Strip(f.buffer)
    /\ f.kept = IF OverlapChars = 0 THEN <<>> ELSE Trailing(f.buffer, OverlapChars)
    /\ f.next = f.kept \o f.sep \o f.piece
    /\ f.sep \in {<<" ">>, <<"\n", "\n">>}

\* C20 as stated: at every flush the chunk emitted is the buffer as it was
\* before the piece, the next buffer is the trailing min(overlapChars, length
\* of the buffer) characters of the flushed buffer, then the separator, then
\* the piece, and the overlap put back is never longer than the chunk emitted.
C20_OverlapWithinChunk ==
    out # <<>> =>
        \A i \in 1..Len(out.flushes) :
            /\ FlushReseedAppend(out.flushes[i])
            /\ Len(out.flushes[i].kept) <= Len(out.flushes[i].chunk)

\* C20, amended: at every flush the chunk emitted is the buffer as it was
\* before the piece, the next buffer is the trailing min(overlapChars, length
\* of the buffer) characters of the flushed buffer, then the separator, then
\* the piece; the overlap put back is never longer than the flushed buffer,
\* and without its leading whitespace never longer than the chunk emitted.
C20_OverlapWithinBuffer ==
    out # <<>> =>
        \A i \in 1..Len(out.flushes) :
            /\ FlushReseedAppend(out.flushes[i])
            /\ Len(out.flushes[i].kept) <= Len(out.flushes[i].buffer)
            /\ Len(LStrip(out.flushes[i].kept)) <= Len(out.flushes[i].chunk)
            /\ out.chunks[i] = out.flushes[i].chunk
            /\ Strip(out.flushes[i].next) = Take(out.chunks[i + 1],
                                                 Len(Strip(out.flushes[i].next)))

\* a flush before a sentence longer than targetChars, with the whole buffer
\* put back
C20_Witness ==
    /\ out # <<>>
    /\ \E i \in 1..Len(out.flushes) :
          /\ Len(out.flushes[i].piece) > TargetChars
          /\ out.flushes[i].kept = out.flushes[i].buffer
          /\ Len(out.flushes[i].kept) > Len(out.flushes[i].chunk)
(***************************************************************************)
(* Properties of the upload endpoint.                                      *)
(***************************************************************************)
\* the filename ends, whatever the case of its letters, with .pdf or .txt
HasAllowedExtension(filename) ==
    /\ Len(filename) >= 4
    /\ LowerStr(SubSeq(filename, Len(filename) - 3, Len(filename)))
           \in {<<".", "p", "d", "f">>, <<".", "t", "x", "t">>}

\* the request is one the HTTP layer lets through
WithinUploadLimits(u) ==
    /\ HasAllowedExtension(u.filename)
    /\ 0 < u.body.nbytes
    /\ u.body.nbytes <= 10 * 1024 * 1024

\* C18: an upload reaches the ingestion core only when its filename ends with
\* .pdf or .txt and its size is above 0 and at most 10 MiB; the core then
\* never fails with UnsupportedFileType; and a request that does not reach
\* the core is answered 400 and leaves the store and the upload directory as
\* they were.
C18_ValidatedNeverUnsupported ==
    [][\A u \in Uploads :
          (last'.op = "upload" /\ last'.arg = u /\ (last' # last \/ clock' # clock))
          => /\ IngestStep => WithinUploadLimits(u)
             /\ IngestStep => last'.err # "UnsupportedFileType"
             /\ ~IngestStep => /\ last'.status = 400
                               /\ collection' = collection
                               /\ files' = files]_vars
(***************************************************************************)
(* Properties of uploads in flight at once.                                *)
(***************************************************************************)
\* the delete step of one request ran between the delete step and the
\* insert step of request p, for the same doc_id
InterleavedAt(i, j, k) ==
    /\ i < j /\ j < k
    /\ oplog[i].step = "delete" /\ oplog[k].step = "add" /\ oplog[i].req = oplog[k].req
    /\ oplog[j].step = "delete" /\ oplog[j].req # oplog[i].req
    /\ oplog[j].doc = oplog[i].doc

Interleaved == \E i, j, k \in 1..Len(oplog) : InterleavedAt(i, j, k)

\* p is between its delete step and its insert step, q is ready for its
\* delete step, both for the same doc_id
Simultaneous(p, q) ==
    /\ p # q
    /\ procs[p].pc = "add" /\ procs[q].pc = "seek"
    /\ DocIdOf(procs[p].upload) = DocIdOf(procs[q].upload)

AloneInProcess(q) ==
    \A x \in DOMAIN procs \ {q} : procs[x].worker # procs[q].worker

DocumentsPresent(col, fs) ==
    {r.metadata.document_id : r \in col} \cup {y.id : y \in RegistryRecords(fs)}

\* the paths of the raw files the registry records of d name
RawFilesNamed(fs, d) ==
    {RawPath(d, y.filename) : y \in {z \in RegistryRecords(fs) : z.id = d}} \cap DOMAIN fs

\* the file at path p is after the step what it was before
FileKept(p) == p \in DOMAIN files => (p \in DOMAIN files' /\ files'[p] = files[p])

\* C21: a delete of doc_id leaves every other document present before the
\* call as it was: its chunks in the vector store, its registry record and
\* its raw file.
C21_DeleteLeavesOthers ==
    [][last'.op = "delete" =>
          \A d \in DocumentsPresent(collection, files) \ {last'.arg} :
              /\ ChunksOf(collection', d) = ChunksOf(collection, d)
              /\ FileKept(MetadataPath(d))
              /\ \A p \in RawFilesNamed(files, d) : FileKept(p)]_vars
(***************************************************************************)
(* chunk_text and the guards of ingest_document.                           *)
(***************************************************************************)
\* the chunk is not empty and neither begins nor ends with whitespace
IsTrimmedChunk(c) ==
    /\ c # <<>>
    /\ c[1] \notin {" ", "\n", "\t"}
    /\ c[Len(c)] \notin {" ", "\n", "\t"}

\* C22: chunk_text returns no chunk exactly when the text is empty or
\* whitespace-only; for every other text, whatever the chunk size and the
\* overlap, it returns at least one chunk, each non-empty and without leading
\* or trailing whitespace; so a text that passes the EmptyContent test of
\* ingest_document never meets the ChunkingFailed test.
C22_NoChunkIffBlank ==
    out # <<>> =>
        /\ out.chunks = <<>> <=> WhitespaceOnly(inp.text)
        /\ \A i \in 1..Len(out.chunks) : IsTrimmedChunk(out.chunks[i])
        /\ ~TextIsBlank(inp.text) => out.chunks # <<>>

\* a text cut into several chunks with an overlap as large as the chunk size
C22_Witness ==
    /\ out # <<>>
    /\ OverlapChars >= TargetChars
    /\ Len(out.chunks) >= 3
    /\ \E i \in 1..Len(inp.text) : inp.text[i] = "\n"

====
